---- MODULE Spec2Model ----
(* Model of src/app.py: a Flask application holding an OAuth token in the   *)
(* browser session, proxying calls to a remote music API and keeping        *)
(* per-track (tempo, speed) overrides in one SQLite table.                  *)
EXTENDS Integers, Sequences, FiniteSets, TLC

VARIABLES session, clock, table, conn, lock, lastCommit, world, resp, log

vars == <<session, clock, table, conn, lock, lastCommit, world, resp, log>>

(***************************************************************************)
(* Bounds                                                                  *)
(***************************************************************************)
MaxClock == 2        \* int(time.time()) ranges over 0..MaxClock
NumWorkers == 2      \* concurrent POST /settings requests
NumTokens == 2       \* distinct access tokens the authorization server issues
MaxGenres == 4       \* longest "genres" list of a request
PlaylistLen == 6     \* tracks of a non-empty fallback playlist

\* Numbers of src/app.py
RecLimit == 10          \* sp.recommendations(..., limit=10)
GenreCap == 3           \* for genre in genres[:3]
SearchLimit == 4        \* sp.search(..., limit=4)
MaxSuggestions == 10    \* len(suggestions) >= 10 / < 10
TopUpThreshold == 5     \* if len(suggestions) < 5
TopUpLimit == 5         \* sp.playlist_items(playlist_id, limit=5)
FallbackLimit == 10     \* sp.playlist_items(playlist_id, limit=10)
NumFallback == 3        \* playlist_ids of the fallback path

\* is_expired = expires_at - int(time.time()) < 60
ExpiryMargin == 60

(***************************************************************************)
(* JSON / SQLite values.  Numbers are fixed point, in hundredths.          *)
(***************************************************************************)
NULL == [t |-> "null", v |-> 0]
IntVal(n) == [t |-> "int", v |-> n]
RealVal(n) == [t |-> "real", v |-> n]

TrackIds == {"a", "b"}
Tempos == {NULL, IntVal(12800), RealVal(12000)}    \* 128, 120.0
Speeds == {NULL, RealVal(105)}                     \* 1.05

\* Column affinity REAL (tempo REAL, speed REAL): an integer is stored as
\* the floating point number of the same value, NULL stays NULL.
RealAffinity(x) == IF x.t = "int" THEN RealVal(x.v) ELSE x

\* Two JSON values denote the same value: both null, or the same number.
JsonEq(x, y) == (x.t = "null") = (y.t = "null") /\ x.v = y.v

\* Python truthiness of a value read from the table (None and 0.0 are falsy).
Truthy(x) == x.t # "null" /\ x.v # 0

(***************************************************************************)
(* Settings store: table song_settings(track_id PRIMARY KEY, tempo, speed) *)
(***************************************************************************)
Row(id, tempo, speed) == [track_id |-> id, tempo |-> tempo, speed |-> speed]

\* REPLACE INTO: a plain insert that leaves the conflicting row in place.
ReplaceKeepOld(tbl, id, tempo, speed) ==
    tbl \cup {Row(id, RealAffinity(tempo), RealAffinity(speed))}

\* REPLACE INTO song_settings (track_id, tempo, speed) VALUES (?, ?, ?):
\* the row that conflicts on the primary key is deleted, the new one inserted.
Replace(tbl, id, tempo, speed) ==
    {r \in tbl : r.track_id # id}
        \cup {Row(id, RealAffinity(tempo), RealAffinity(speed))}

\* SELECT that forgets its WHERE clause.
SelectAny(tbl, id) == tbl

\* SELECT tempo, speed FROM song_settings WHERE track_id=?
Select(tbl, id) == {r \in tbl : r.track_id = id}

NoRow == [found |-> FALSE, tempo |-> NULL, speed |-> NULL]

\* c.fetchone(): the first row of the result, or None.
FetchOne(rows) ==
    IF rows = {} THEN {NoRow}
    ELSE {[found |-> TRUE, tempo |-> r.tempo, speed |-> r.speed] : r \in rows}

Workers == 1..NumWorkers
IdleConn == [pc |-> "idle", track_id |-> "a", tempo |-> NULL, speed |-> NULL]
NoCommit == [done |-> FALSE, tempo |-> NULL, speed |-> NULL, over |-> FALSE]

(***************************************************************************)
(* Responses and the per-request log                                       *)
(***************************************************************************)
NoToken == [access_token |-> 0, refresh_token |-> 0, expires_at |-> 0]

Resp0 == [route |-> "none", status |-> 0, kind |-> "none", error |-> "",
          location |-> "", n |-> 0, track_id |-> "a", tempo |-> NULL,
          speed |-> NULL]

Log0 == [before |-> NoToken, now |-> 0, ensured |-> FALSE, refreshes |-> 0,
         refresh_with |-> 0, refresh_ok |-> FALSE, issued |-> NoToken,
         access |-> 0, calls |-> {},
         flow |-> [body |-> "none", track_ids |-> <<>>, use_genres |-> FALSE,
                   ngenres |-> 0, features |-> <<>>, rec |-> "none",
                   genre |-> "none", topup |-> "none", fallback |-> "none",
                   searches |-> 0, found |-> 0]]

JsonResp(route, status, error) ==
    [Resp0 EXCEPT !.route = route, !.status = status, !.kind = "json",
                  !.error = error]

\* redirect(...): 302 with a Location header.
Redirect(route, location) ==
    [Resp0 EXCEPT !.route = route, !.status = 302, !.kind = "redirect",
                  !.location = location]

\* render_template(...) or a plain string body.
Page(route, status) ==
    [Resp0 EXCEPT !.route = route, !.status = status, !.kind = "html"]

\* An exception that leaves the view function: Flask answers 500 with its
\* own error page.
Uncaught(route) ==
    [Resp0 EXCEPT !.route = route, !.status = 500, !.kind = "uncaught"]

(***************************************************************************)
(* Session token holder                                                    *)
(***************************************************************************)
Tokens == 1..NumTokens

\* expires_in of the tokens the authorization server issues; spotipy stores
\* expires_at = int(time.time()) + expires_in.  Access token a comes with
\* refresh token NumTokens + a.
ExpiresIns == {ExpiryMargin - 1, ExpiryMargin}

TokenInfos(now) ==
    {[access_token |-> a, refresh_token |-> NumTokens + a,
      expires_at |-> now + e] : a \in Tokens, e \in ExpiresIns}

\* What a call to the authorization server (refresh_access_token,
\* get_access_token) can do: raise, or return a token info.
OAuthFailed == [ok |-> FALSE, token |-> NoToken]
OAuthOutcomes(now) ==
    {OAuthFailed} \cup {[ok |-> TRUE, token |-> t] : t \in TokenInfos(now)}

\* is_expired with the comparison off by one.
IsExpiredInclusive(token_info, now) ==
    token_info.expires_at - now <= ExpiryMargin

\* is_expired = token_info.get("expires_at", 0) - int(time.time()) < 60
IsExpired(token_info, now) ==
    token_info.expires_at - now < ExpiryMargin

\* _ensure_token that keeps the stale token when the refresh fails.
EnsureTokenKeepStale(sess, now, out) ==
    IF sess = NoToken
    THEN [session |-> sess, access |-> 0, refreshes |-> 0, refresh_with |-> 0,
          refresh_ok |-> FALSE, issued |-> NoToken]
    ELSE IF IsExpired(sess, now)
    THEN IF out.ok
         THEN [session |-> out.token, access |-> out.token.access_token,
               refreshes |-> 1, refresh_with |-> sess.refresh_token,
               refresh_ok |-> TRUE, issued |-> out.token]
         ELSE [session |-> sess, access |-> sess.access_token,
               refreshes |-> 1, refresh_with |-> sess.refresh_token,
               refresh_ok |-> FALSE, issued |-> NoToken]
    ELSE [session |-> sess, access |-> sess.access_token, refreshes |-> 0,
          refresh_with |-> 0, refresh_ok |-> FALSE, issued |-> NoToken]

\* _ensure_token(): the session after the call, the access token returned
\* (0 for None) and the refresh attempts made, given what the single call of
\* refresh_access_token does (out).
EnsureToken(sess, now, out) ==
    IF sess = NoToken
    THEN [session |-> sess, access |-> 0, refreshes |-> 0, refresh_with |-> 0,
          refresh_ok |-> FALSE, issued |-> NoToken]
    ELSE IF IsExpired(sess, now)
    THEN IF out.ok
         THEN [session |-> out.token, access |-> out.token.access_token,
               refreshes |-> 1, refresh_with |-> sess.refresh_token,
               refresh_ok |-> TRUE, issued |-> out.token]
         ELSE [session |-> NoToken, access |-> 0, refreshes |-> 1,
               refresh_with |-> sess.refresh_token, refresh_ok |-> FALSE,
               issued |-> NoToken]
    ELSE [session |-> sess, access |-> sess.access_token, refreshes |-> 0,
          refresh_with |-> 0, refresh_ok |-> FALSE, issued |-> NoToken]

\* Every result _ensure_token can have in the current state.
EnsureResults == {EnsureToken(session, clock, o) : o \in OAuthOutcomes(clock)}

\* The log of a request that called _ensure_token (result e) and then made
\* the remote API calls in calls.
LogOf(e, calls) ==
    [before |-> session, now |-> clock, ensured |-> TRUE,
     refreshes |-> e.refreshes, refresh_with |-> e.refresh_with,
     refresh_ok |-> e.refresh_ok, issued |-> e.issued, access |-> e.access,
     calls |-> calls, flow |-> Log0.flow]

\* The log of a request that never calls _ensure_token.
LogPlain(calls) == [Log0 EXCEPT !.before = session, !.now = clock, !.calls = calls]

\* int(time.time()) advances.
Tick ==
    /\ clock < MaxClock
    /\ clock' = clock + 1
    /\ UNCHANGED <<session, table, conn, lock, lastCommit, world, resp, log>>

(***************************************************************************)
(* Routes.  Each action is one request handled from start to finish; the   *)
(* database and the settings requests in flight are left alone.            *)
(***************************************************************************)
StoreUnchanged == UNCHANGED <<clock, table, conn, lock, lastCommit, world>>

\* The browser of the session sends one request at a time: it has read the
\* response to its previous request.
ClientReady == resp = Resp0

\* The response leaves the server (through add_no_cache_headers) and the
\* request is over.
Receive ==
    /\ resp # Resp0
    /\ resp' = Resp0
    /\ log' = Log0
    /\ UNCHANGED <<session, clock, table, conn, lock, lastCommit, world>>

\* Answer a request that called _ensure_token with result e.
Answer(e, calls, r) ==
    /\ session' = e.session
    /\ log' = LogOf(e, calls)
    /\ resp' = r
    /\ StoreUnchanged

\* GET /
Root ==
    /\ ClientReady
    /\ \E e \in EnsureResults :
           Answer(e, {}, IF e.access # 0 THEN Redirect("root", "playlists")
                         ELSE Page("root", 200))

\* A /login that also drops the session's token.
LoginClearsSession ==
    /\ ClientReady
    /\ resp' = Redirect("login", "authorize")
    /\ log' = LogPlain({})
    /\ session' = NoToken
    /\ StoreUnchanged

\* GET /login: cache_path is None, so no file is removed.
Login ==
    /\ ClientReady
    /\ resp' = Redirect("login", "authorize")
    /\ log' = LogPlain({})
    /\ UNCHANGED session
    /\ StoreUnchanged

\* GET /callback?code=
Callback ==
    /\ ClientReady
    /\ \E code \in BOOLEAN, out \in OAuthOutcomes(clock) :
          IF ~code
          THEN /\ resp' = [Page("callback", 400) EXCEPT
                               !.error = "Missing authorization code."]
               /\ log' = LogPlain({})
               /\ UNCHANGED session
          ELSE IF ~out.ok
          THEN /\ resp' = Uncaught("callback")
               /\ log' = LogPlain({"get_access_token"})
               /\ UNCHANGED session
          ELSE /\ resp' = Redirect("callback", "playlists")
               /\ log' = [LogPlain({"get_access_token"}) EXCEPT
                              !.issued = out.token]
               /\ session' = out.token
    /\ StoreUnchanged

\* GET /playlists
Playlists ==
    /\ ClientReady
    /\ \E e \in EnsureResults :
           IF e.access = 0
           THEN Answer(e, {}, Redirect("playlists", "login"))
           ELSE \/ Answer(e, {"current_user_playlists"}, Page("playlists", 200))
                \/ Answer(e, {"current_user_playlists", "next"},
                          Page("playlists", 200))
                \/ \E c \in {{"current_user_playlists"},
                             {"current_user_playlists", "next"}},
                      err \in {"Spotify API error", "server_error"} :
                      Answer(e, c, JsonResp("playlists", 500, err))

\* GET /playlist/<playlist_id>
ViewPlaylist ==
    /\ ClientReady
    /\ \E e \in EnsureResults :
           IF e.access = 0
           THEN Answer(e, {}, Redirect("view_playlist", "login"))
           ELSE \E c \in {{"playlist_items"}, {"playlist_items", "next"}} :
                   \/ Answer(e, c, Page("view_playlist", 200))
                   \/ Answer(e, c, Uncaught("view_playlist"))

\* POST /create_transition_playlist
CreateTransitionPlaylist ==
    /\ ClientReady
    /\ \E e \in EnsureResults, ids \in {<<>>, <<"a">>} :
         LET route == "create_transition_playlist"
             Ans(calls, r) ==
                 /\ session' = e.session
                 /\ log' = [LogOf(e, calls) EXCEPT
                                !.flow.body = "object", !.flow.track_ids = ids]
                 /\ resp' = r
                 /\ StoreUnchanged
         IN  IF e.access = 0
             THEN Answer(e, {}, JsonResp(route, 401, "not_authenticated"))
             ELSE IF ids = <<>>
             THEN Ans({}, JsonResp(route, 400, "track_ids required"))
             ELSE \/ Ans({"current_user", "user_playlist_create",
                          "playlist_replace_items"}, JsonResp(route, 200, ""))
                  \/ \E c \in {{"current_user"},
                               {"current_user", "user_playlist_create"},
                               {"current_user", "user_playlist_create",
                                "playlist_replace_items"}} :
                        Ans(c, Uncaught(route))

\* GET /preview/<track_id>
GetPreview ==
    /\ ClientReady
    /\ \E e \in EnsureResults :
           IF e.access = 0
           THEN Answer(e, {}, JsonResp("get_preview", 401, "not_authenticated"))
           ELSE \/ Answer(e, {"track"}, JsonResp("get_preview", 200, ""))
                \/ Answer(e, {"track"}, Uncaught("get_preview"))

\* GET /api/status, through _verify_spotify_connection
ApiStatus ==
    /\ ClientReady
    /\ \E e \in EnsureResults :
           IF e.access = 0
           THEN Answer(e, {}, JsonResp("api_status", 400, "Not authenticated"))
           ELSE \/ Answer(e, {"current_user"}, JsonResp("api_status", 200, ""))
                \/ \E err \in {"Spotify API error", "Unexpected error"} :
                      Answer(e, {"current_user"}, JsonResp("api_status", 400, err))

\* GET /api/search?q=
SearchTracks ==
    /\ ClientReady
    /\ \E e \in EnsureResults, query_ok \in BOOLEAN :
           IF e.access = 0
           THEN Answer(e, {}, JsonResp("search_tracks", 401, "not_authenticated"))
           ELSE IF ~query_ok
           THEN Answer(e, {}, JsonResp("search_tracks", 400,
                                       "Query must be at least 2 characters"))
           ELSE \/ Answer(e, {"search"}, JsonResp("search_tracks", 200, ""))
                \/ Answer(e, {"search", "audio_features", "recommendations"},
                          JsonResp("search_tracks", 200, ""))
                \/ Answer(e, {"search"}, JsonResp("search_tracks", 500, "exception"))

\* GET /api/popular_tracks
GetPopularTracks ==
    /\ ClientReady
    /\ \E e \in EnsureResults :
           IF e.access = 0
           THEN Answer(e, {}, JsonResp("get_popular_tracks", 401,
                                       "not_authenticated"))
           ELSE \/ Answer(e, {"track"}, JsonResp("get_popular_tracks", 200, ""))
                \/ Answer(e, {"track"}, JsonResp("get_popular_tracks", 500,
                                                 "Could not fetch any tracks"))

\* GET /api/genres
GetAvailableGenres ==
    /\ ClientReady
    /\ \E e \in EnsureResults :
           IF e.access = 0
           THEN Answer(e, {}, JsonResp("get_available_genres", 401,
                                       "not_authenticated"))
           ELSE Answer(e, {"recommendation_genre_seeds"},
                       JsonResp("get_available_genres", 200, ""))

(***************************************************************************)
(* POST /transition_between                                                *)
(***************************************************************************)
Min(x, y) == IF x < y THEN x ELSE y

\* The track_ids a request body can carry ("k" is one of
\* KNOWN_WORKING_TRACKS), and what the remote service knows of a track.
KnownWorkingTracks == {"k"}
TrackLists == {<<>>, <<"a">>, <<"a", "b">>, <<"k", "k">>}
RemoteTempo == RealVal(10000)
RemoteEnergy == RealVal(40)
DefaultEnergy == RealVal(50)
Flow0 == Log0.flow

\* The world: how many tracks each fallback playlist holds.
Worlds == [1..NumFallback -> {0, PlaylistLen}]

\* One track's (tempo, energy): the stored override if its tempo is set,
\* else sp.audio_features(track_id)[0], which answers fo.
ResolveRow(row, fo) ==
    IF row.found /\ row.tempo # NULL
    THEN [ok |-> TRUE, remote |-> FALSE, tempo |-> row.tempo,
          energy |-> IF Truthy(row.speed) THEN row.speed ELSE DefaultEnergy]
    ELSE IF fo = "ok"
    THEN [ok |-> TRUE, remote |-> TRUE, tempo |-> RemoteTempo,
          energy |-> RemoteEnergy]
    ELSE [ok |-> FALSE, remote |-> TRUE, tempo |-> NULL, energy |-> NULL]

Resolve(tbl, id) ==
    {ResolveRow(row, fo) : row \in FetchOne(Select(tbl, id)),
                           fo \in {"ok", "none", "raise"}}

\* The features loop over both tracks; it returns at the first failure.
Features(tbl, ids) ==
    {IF f1.ok THEN <<f1, f2>> ELSE <<f1>> :
        f1 \in Resolve(tbl, ids[1]), f2 \in Resolve(tbl, ids[2])}

\* _check_track_for_recommendations: the allow-list, else a probe call.
CheckTrackForRecommendations(track_id, probe_ok) ==
    track_id \in KnownWorkingTracks \/ probe_ok

\* A loop that appends every item it is given.
AppendUncapped(n, items) == n + items

\* The suggestions a list of found items leaves: appended while fewer than 10.
Append10(n, items) == Min(MaxSuggestions, n + items)

\* What sp.search(..., limit=4) can return for one genre: no item, one, or
\* as many as asked for.
SearchCounts == {0, 1, SearchLimit}

\* Genre search over the first k genres: the set of results (suggestions
\* found, whether a call raised, sp.search calls made).
RECURSIVE GenreSearch(_)
GenreSearch(k) ==
    IF k = 0 THEN {[n |-> 0, failed |-> FALSE, searches |-> 0]}
    ELSE UNION {IF s.failed THEN {s}
                ELSE {[n |-> Append10(s.n, c), failed |-> FALSE,
                       searches |-> k] : c \in SearchCounts}
                     \cup {[n |-> s.n, failed |-> TRUE, searches |-> k]} :
                s \in GenreSearch(k - 1)}

\* A fallback loop that samples the first playlist only.
FallbackFirstOnly(w, p) ==
    IF p = 0 THEN {[n |-> 0, failed |-> FALSE]}
    ELSE {[n |-> Append10(0, Min(w[1], FallbackLimit)), failed |-> FALSE],
          [n |-> 0, failed |-> TRUE]}

\* The fallback loop over the first p playlists.
RECURSIVE FallbackLoop(_, _)
FallbackLoop(w, p) ==
    IF p = 0 THEN {[n |-> 0, failed |-> FALSE]}
    ELSE UNION {IF s.failed \/ s.n >= MaxSuggestions THEN {s}
                ELSE {[n |-> Append10(s.n, Min(w[p], FallbackLimit)),
                       failed |-> FALSE],
                      [n |-> s.n, failed |-> TRUE]} :
                s \in FallbackLoop(w, p - 1)}

Out(fl, calls, r) == [flow |-> fl, calls |-> calls, resp |-> r]
Suggestions(n) == [JsonResp("transition_between", 200, "") EXCEPT !.n = n]
TbError(status, error) == JsonResp("transition_between", status, error)

\* The genre branch (if data.get("use_genres")), which always returns.
GenrePath(fl, calls, w) ==
    UNION {
      LET c1 == IF Min(fl.ngenres, GenreCap) > 0 THEN calls \cup {"search"}
                ELSE calls
          fs == [fl EXCEPT !.searches = s.searches, !.found = s.n]
      IN  IF s.failed
          THEN {Out([fs EXCEPT !.genre = "raise"], c1,
                    TbError(500, "Search error"))}
          ELSE IF s.n < TopUpThreshold
          THEN LET n2 == Append10(s.n, Min(w[1], TopUpLimit))
                   c2 == c1 \cup {"playlist_items"}
                   g == IF s.n = 0 THEN "empty" ELSE "ok"
               IN  {Out([fs EXCEPT !.genre = g, !.topup = "raise"], c2,
                        TbError(500, "Search error")),
                    Out([fs EXCEPT !.genre = g, !.topup = "done"], c2,
                        IF n2 = 0 THEN TbError(404, "No tracks found")
                        ELSE Suggestions(n2))}
          ELSE {Out([fs EXCEPT !.genre = "ok"], c1, Suggestions(s.n))} :
      s \in GenreSearch(Min(fl.ngenres, GenreCap))}

\* The fallback playlists (the code after the genre branch).
FallbackPath(fl, calls, w) ==
    {LET c1 == calls \cup {"playlist_items"}
     IN  IF s.failed
         THEN Out([fl EXCEPT !.fallback = "raise"], c1,
                  TbError(500, "Tracks error"))
         ELSE IF s.n = 0
         THEN Out([fl EXCEPT !.fallback = "empty"], c1,
                  TbError(404, "No tracks found"))
         ELSE Out([fl EXCEPT !.fallback = "ok"], c1, Suggestions(s.n)) :
     s \in FallbackLoop(w, NumFallback)}

\* What follows the track-based block.
AfterTracks(fl, calls, w) ==
    IF fl.use_genres THEN GenrePath(fl, calls, w)
    ELSE FallbackPath(fl, calls, w)

\* The track-based block once both tracks have features.
RecPath(fl, calls, w) ==
    LET ids == fl.track_ids
        probing == \E i \in 1..2 : ids[i] \notin KnownWorkingTracks
        c1 == IF probing THEN calls \cup {"recommendations"} ELSE calls
        c2 == calls \cup {"recommendations"}
        verdicts == {\A i \in 1..2 :
                        CheckTrackForRecommendations(ids[i], pr[i]) :
                     pr \in [1..2 -> BOOLEAN]}
        unsupported ==
            IF FALSE \in verdicts
            THEN AfterTracks([fl EXCEPT !.rec = "unsupported"], c1, w)
            ELSE {}
        supported ==
            IF TRUE \in verdicts
            THEN {Out([fl EXCEPT !.rec = "ok"], c2, Suggestions(c)) :
                      c \in {1, RecLimit}}
                 \cup AfterTracks([fl EXCEPT !.rec = "empty"], c2, w)
                 \cup AfterTracks([fl EXCEPT !.rec = "raise"], c2, w)
            ELSE {}
    IN  unsupported \cup supported

\* isinstance(track_ids, list) and len(track_ids) == 2
HasTwoTracks(ids) == Len(ids) = 2

\* A body without two track ids that is turned away with 400.
SkipTracksRejected(fl, w) ==
    {Out(fl, {}, TbError(400, "track_ids required"))}

\* A body without two track ids: the track-based block is skipped and the
\* handler goes on with the genre branch or the fallback playlists.
SkipTracks(fl, w) == AfterTracks(fl, {}, w)

\* Everything the handler can do with a JSON object body, once it has a
\* client: the flow it follows, the remote calls it makes, its response.
TrackPath(fl, tbl, w) ==
    IF ~HasTwoTracks(fl.track_ids) THEN SkipTracks(fl, w)
    ELSE UNION {
        LET calls == IF \E i \in 1..Len(fs) : fs[i].remote
                     THEN {"audio_features"} ELSE {}
            fl2 == [fl EXCEPT !.features = fs]
        IN  IF ~fs[Len(fs)].ok
            THEN {Out(fl2, calls, TbError(400, "features_error"))}
            ELSE RecPath(fl2, calls, w) :
        fs \in Features(tbl, fl.track_ids)}

Bodies ==
    {[Flow0 EXCEPT !.body = "object", !.track_ids = ids, !.use_genres = g,
                   !.ngenres = n] :
        ids \in TrackLists, g \in BOOLEAN, n \in 0..MaxGenres}

\* A body that is a JSON array: data.get raises, the outer except answers.
ArrayBody ==
    Out([Flow0 EXCEPT !.body = "array"], {}, TbError(500, "server_error"))

TransitionOutcomes(tbl, w) ==
    {ArrayBody} \cup
    UNION {TrackPath(fl, tbl, w) :
             fl \in {b \in Bodies : b.use_genres \/ b.ngenres = 0}}

TransitionBetween ==
    /\ ClientReady
    /\ \E e \in EnsureResults :
           IF e.access = 0
           THEN Answer(e, {}, JsonResp("transition_between", 401,
                                       "not_authenticated"))
           ELSE \E o \in TransitionOutcomes(table, world) :
                   /\ session' = e.session
                   /\ log' = [LogOf(e, o.calls) EXCEPT !.flow = o.flow]
                   /\ resp' = o.resp
                   /\ StoreUnchanged

(***************************************************************************)
(* POST /settings/<track_id>, one step per database operation              *)
(***************************************************************************)
\* sqlite3.connect + c.execute("REPLACE ..."): the statement opens the
\* connection's write transaction, which takes the database write lock.
SaveExecute(w) ==
    /\ conn[w].pc = "idle"
    /\ lock = 0
    /\ \E id \in TrackIds, tempo \in Tempos, speed \in Speeds :
          conn' = [conn EXCEPT ![w] = [pc |-> "executed", track_id |-> id,
                                       tempo |-> tempo, speed |-> speed]]
    /\ lock' = w
    /\ UNCHANGED <<session, clock, table, lastCommit, world, resp, log>>

\* The write lock is held by another connection for longer than the busy
\* timeout: execute raises OperationalError, nothing is written.
SaveBusy(w) ==
    /\ conn[w].pc = "idle"
    /\ lock # 0
    /\ resp' = Uncaught("save_song_settings")
    /\ log' = Log0
    /\ UNCHANGED <<session, clock, table, conn, lock, lastCommit, world>>

\* The REPLACE statement of a request takes effect at its commit; the
\* response echoes the request's values.  lastCommit remembers, per track,
\* the request that committed last (over: it replaced a different row).
Committed(id, tempo, speed) ==
    /\ table' = Replace(table, id, tempo, speed)
    /\ lastCommit' = [lastCommit EXCEPT ![id] =
          [done |-> TRUE, tempo |-> tempo, speed |-> speed,
           over |-> \E r \in table : r.track_id = id
                       /\ (r.tempo # RealAffinity(tempo)
                           \/ r.speed # RealAffinity(speed))]]
    /\ resp' = [JsonResp("save_song_settings", 200, "") EXCEPT
                    !.track_id = id, !.tempo = tempo, !.speed = speed]
    /\ log' = Log0

\* conn.commit(); conn.close(); return jsonify(...)
SaveCommit(w) ==
    /\ conn[w].pc = "executed"
    /\ lock = w
    /\ Committed(conn[w].track_id, conn[w].tempo, conn[w].speed)
    /\ conn' = [conn EXCEPT ![w] = IdleConn]
    /\ lock' = 0
    /\ UNCHANGED <<session, clock, world>>

\* POST /settings/<track_id> handled with no other settings request in
\* flight: execute, commit and close in one step.
SaveSongSettings ==
    /\ ClientReady
    /\ lock = 0
    /\ \E id \in TrackIds, tempo \in Tempos, speed \in Speeds :
          Committed(id, tempo, speed)
    /\ UNCHANGED <<session, clock, conn, lock, world>>

\* GET /settings/<track_id>
GetSongSettings ==
    /\ \E id \in TrackIds : \E row \in FetchOne(Select(table, id)) :
          resp' = [JsonResp("get_song_settings", 200, "") EXCEPT
                        !.track_id = id, !.tempo = row.tempo,
                        !.speed = row.speed]
    /\ log' = Log0
    /\ UNCHANGED <<session, clock, table, conn, lock, lastCommit, world>>

(***************************************************************************)
(* Initial state: init_db() has created the empty table, no session        *)
(***************************************************************************)
Init ==
    /\ session = NoToken
    /\ clock = 0
    /\ table = {}
    /\ conn = [w \in Workers |-> IdleConn]
    /\ lock = 0
    /\ lastCommit = [id \in TrackIds |-> NoCommit]
    /\ world = [p \in 1..NumFallback |-> PlaylistLen]
    /\ resp = Resp0
    /\ log = Log0

NextStore ==
    \/ \E w \in Workers : SaveExecute(w)
    \/ \E w \in Workers : SaveBusy(w)
    \/ \E w \in Workers : SaveCommit(w)
    \/ GetSongSettings

SpecStore == Init /\ [][NextStore]_vars

NextAuth ==
    \/ Tick
    \/ Receive
    \/ Root
    \/ Login
    \/ Callback
    \/ Playlists
    \/ ViewPlaylist
    \/ TransitionBetween
    \/ CreateTransitionPlaylist
    \/ GetPreview
    \/ ApiStatus
    \/ SearchTracks
    \/ GetPopularTracks
    \/ GetAvailableGenres

SpecAuth == Init /\ [][NextAuth]_vars

\* The transition flow of a logged-in session: /callback has stored a token
\* that stays valid, and the fallback playlists hold what the world says.
InitFlow ==
    /\ session = [access_token |-> 1, refresh_token |-> NumTokens + 1,
                  expires_at |-> ExpiryMargin]
    /\ clock = 0
    /\ table = {}
    /\ conn = [w \in Workers |-> IdleConn]
    /\ lock = 0
    /\ lastCommit = [id \in TrackIds |-> NoCommit]
    /\ world \in Worlds
    /\ resp = Resp0
    /\ log = Log0

NextFlow ==
    \/ Receive
    \/ SaveSongSettings
    \/ TransitionBetween

SpecFlow == InitFlow /\ [][NextFlow]_vars

(***************************************************************************)
(* Properties                                                              *)
(***************************************************************************)
\* The request just answered found a stored token; Margin is how long that
\* token still had to live: expires_at - int(time.time()).
FoundToken == log.ensured /\ log.before # NoToken
Margin == log.before.expires_at - log.now

\* C1: when _ensure_token finds a stored token that is expired it makes
\* exactly one refresh attempt, with the stored refresh token.  If the
\* refresh succeeds the session holds exactly the token info the refresh
\* returned and its access token is what _ensure_token returns; if it fails
\* the token is gone from the session, None is returned and the handler
\* answers as for a missing token: no exception reaches the caller.
C1_SingleRefresh ==
    (FoundToken /\ Margin < ExpiryMargin) =>
        /\ log.refreshes = 1
        /\ log.refresh_with = log.before.refresh_token
        /\ log.refresh_ok =>
              /\ log.issued # NoToken
              /\ session = log.issued
              /\ log.access = log.issued.access_token
        /\ ~log.refresh_ok =>
              /\ session = NoToken
              /\ log.access = 0
              /\ log.calls = {}
              /\ resp.kind # "uncaught"

\* C1 witness: an expired token was refreshed and the session now holds a
\* different access token, which the handler used.
C1_Witness ==
    /\ FoundToken
    /\ Margin < ExpiryMargin
    /\ log.refresh_ok
    /\ session.access_token # log.before.access_token
    /\ log.access = session.access_token

\* C2 as stated: a refresh is attempted exactly when expires_at - now < 60,
\* and a token exactly at the boundary (expires_at - now = 60) counts as
\* expired, so a refresh is attempted there too.
C2_BoundaryExpired ==
    FoundToken =>
        /\ (log.refreshes = 1) <=> (Margin < ExpiryMargin)
        /\ (Margin = ExpiryMargin) => (log.refreshes = 1)

\* C2 as amended: a stored token is refreshed exactly when
\* expires_at - now < 60, now being the time in whole seconds; at
\* expires_at - now = 60 the token is still valid: no refresh is attempted
\* and its access token is returned.  Without a stored token there is no
\* refresh.
C2_ExpiredIffBelowMargin ==
    /\ FoundToken =>
          /\ (log.refreshes = 1) <=> (Margin < ExpiryMargin)
          /\ (Margin >= ExpiryMargin) =>
                /\ log.refreshes = 0
                /\ log.access = log.before.access_token
                /\ session = log.before
    /\ (log.ensured /\ log.before = NoToken) => log.refreshes = 0

\* C2 witness: a request found a token with exactly 60 seconds left and
\* used it without a refresh.
C2_Witness ==
    /\ FoundToken
    /\ Margin = ExpiryMargin
    /\ log.refreshes = 0
    /\ log.access = log.before.access_token

\* The routes that need a token, by the kind of their answer.
HtmlRoutes == {"playlists", "view_playlist"}
AjaxRoutes ==
    {"transition_between", "create_transition_playlist", "get_preview",
     "api_status", "search_tracks", "get_popular_tracks",
     "get_available_genres"}

\* C3: a request to an endpoint that needs a token, made while
\* _ensure_token returns None, is answered by a redirect to /login on the
\* HTML routes and by 401 with a JSON error on the AJAX routes, and makes
\* no call to the remote API.
C3_UnauthenticatedAnswer ==
    (log.ensured /\ log.access = 0) =>
        /\ resp.route \in HtmlRoutes =>
              /\ resp.kind = "redirect"
              /\ resp.location = "login"
        /\ resp.route \in AjaxRoutes =>
              /\ resp.kind = "json"
              /\ resp.status = 401
        /\ resp.route \in HtmlRoutes \cup AjaxRoutes => log.calls = {}

\* C4: the settings store is a last-write-wins map keyed by track_id: a
\* GET /settings/<id> answers exactly the (tempo, speed) of the upsert that
\* committed last for that id, whatever was stored for it before and
\* whatever other ids hold, and (null, null) for an id never upserted.
C4_LastWriteWins ==
    [][(resp'.route = "get_song_settings" /\ resp' # resp
            /\ UNCHANGED <<table, conn, lock, lastCommit>>) =>
        LET last == lastCommit[resp'.track_id]
        IN  IF last.done
            THEN /\ JsonEq(resp'.tempo, last.tempo)
                 /\ JsonEq(resp'.speed, last.speed)
            ELSE resp'.tempo = NULL /\ resp'.speed = NULL]_vars

\* C4 witness: a GET answers the values of an upsert that replaced a
\* different row of the same track, while the other track holds a row.
C4_Witness ==
    /\ resp.route = "get_song_settings"
    /\ lastCommit[resp.track_id].done
    /\ lastCommit[resp.track_id].over
    /\ resp.tempo # NULL
    /\ JsonEq(resp.tempo, lastCommit[resp.track_id].tempo)
    /\ JsonEq(resp.speed, lastCommit[resp.track_id].speed)
    /\ \E r \in table : r.track_id # resp.track_id

\* The request reached the end of the track-based block of
\* /transition_between without suggestions from the recommendations.
PastTracks ==
    /\ resp.route = "transition_between"
    /\ log.flow.body = "object"
    /\ resp.status \notin {400, 401}
    /\ log.flow.rec # "ok"
SomeFallbackTracks == \E p \in 1..NumFallback : world[p] > 0

\* No search or playlist call of the request failed.
NoCallFailed ==
    /\ log.flow.genre # "raise"
    /\ log.flow.topup # "raise"
    /\ log.flow.fallback # "raise"

\* C5 as stated, for the requests whose search and playlist calls all
\* succeed: whenever the recommendation path and the genre path both yield
\* no suggestions, the answer is a non-empty suggestion list if any fallback
\* playlist has tracks and a 404 only when none has, with or without genre
\* hints in the request.
C5_FallbackAlways ==
    (PastTracks /\ log.flow.genre # "ok" /\ NoCallFailed) =>
        IF SomeFallbackTracks THEN resp.status = 200 /\ resp.n > 0
        ELSE resp.status = 404

\* C5 as amended: a request without genre hints whose recommendation path
\* yields no suggestions samples the fallback playlists; unless one of
\* those calls fails (500) it answers a non-empty list of at most 10 if any
\* fallback playlist has tracks and 404 only when none has.  A request with
\* genre hints never reaches that code: the genre branch answers itself,
\* with 404 when the genres and the first fallback playlist yield nothing
\* and 500 when a call fails.
C5_FallbackWithoutGenres ==
    /\ (PastTracks /\ ~log.flow.use_genres) =>
          /\ log.flow.fallback # "none"
          /\ log.flow.genre = "none"
          /\ log.flow.fallback = "raise" => resp.status = 500
          /\ log.flow.fallback # "raise" =>
                IF SomeFallbackTracks
                THEN resp.status = 200 /\ resp.n \in 1..MaxSuggestions
                ELSE resp.status = 404
    /\ (PastTracks /\ log.flow.use_genres) =>
          /\ log.flow.fallback = "none"
          /\ log.flow.genre # "none"
          /\ resp.status = 404 => log.flow.genre = "empty" /\ world[1] = 0
          /\ resp.status = 500 =>
                log.flow.genre = "raise" \/ log.flow.topup = "raise"

\* C5 witness: the recommendations came back empty, the first fallback
\* playlist is empty too, and the suggestions come from a later playlist.
C5_Witness ==
    /\ PastTracks
    /\ ~log.flow.use_genres
    /\ log.flow.rec = "empty"
    /\ world[1] = 0
    /\ resp.status = 200
    /\ resp.n > 0

\* C6: on every route that calls the remote API a failing remote call is
\* answered by a JSON error: no exception leaves a handler uncaught.
C6_RemoteErrorsCaught ==
    log.calls # {} => resp.kind # "uncaught"

\* A JSON body that lacks the track ids its route asks for, sent with a
\* valid token.
MissingTrackIds ==
    /\ log.access # 0
    /\ log.flow.body = "object"
    /\ \/ resp.route = "transition_between" /\ Len(log.flow.track_ids) # 2
       \/ resp.route = "create_transition_playlist"
            /\ log.flow.track_ids = <<>>

\* C7 as stated: a request whose body lacks the required track ids is
\* rejected with 400, returns no suggestions and makes no remote call.
C7_MissingFieldRejected ==
    MissingTrackIds =>
        /\ resp.status = 400
        /\ resp.n = 0
        /\ log.calls = {}

\* C7 as amended: POST /create_transition_playlist without track_ids is
\* rejected with 400 and makes no remote call.  POST /transition_between
\* without two track ids is not rejected: it skips the track-based block
\* (no audio-features call, no recommendation call) and answers from the
\* genre branch or the fallback playlists with 200, 404 or 500, never 400.
C7_MissingFieldHandling ==
    /\ (MissingTrackIds /\ resp.route = "create_transition_playlist") =>
          /\ resp.status = 400
          /\ log.calls = {}
    /\ (MissingTrackIds /\ resp.route = "transition_between") =>
          /\ resp.status \in {200, 404, 500}
          /\ resp.status = 200 => resp.n > 0
          /\ log.flow.rec = "none"
          /\ log.flow.features = <<>>
          /\ log.calls \subseteq {"search", "playlist_items"}
          /\ IF log.flow.use_genres THEN log.flow.genre # "none"
             ELSE log.flow.fallback # "none"

\* C7 witness: /transition_between is sent a single track id and answers
\* suggestions from the fallback playlists.
C7_Witness ==
    /\ MissingTrackIds
    /\ resp.route = "transition_between"
    /\ Len(log.flow.track_ids) = 1
    /\ resp.status = 200
    /\ log.flow.fallback = "ok"

\* C8: however concurrent POST /settings/<id> requests interleave, the
\* table holds exactly one row for each id that was ever upserted and none
\* for the others, and the row's (tempo, speed) is entirely the pair of the
\* request that committed last for that id.
C8_OneRowOfLastCommit ==
    \A id \in TrackIds :
        LET rows == {r \in table : r.track_id = id}
            last == lastCommit[id]
        IN  IF last.done
            THEN /\ Cardinality(rows) = 1
                 /\ \A r \in rows : /\ JsonEq(r.tempo, last.tempo)
                                    /\ JsonEq(r.speed, last.speed)
            ELSE rows = {}

\* C8 witness: a row of track a has been replaced by a later commit while
\* another request for the same track already holds the write lock with
\* different values, and track b has a row of its own.
C8_Witness ==
    /\ lastCommit["a"].done
    /\ lastCommit["a"].over
    /\ lastCommit["b"].done
    /\ \E w \in Workers :
          /\ conn[w].pc = "executed"
          /\ conn[w].track_id = "a"
          /\ conn[w].tempo # lastCommit["a"].tempo
          /\ conn[w].speed # lastCommit["a"].speed

\* C9: the session token is written only by /callback after a successful
\* code exchange and by a successful refresh inside _ensure_token, and it
\* is removed only by a failed refresh; /callback without a code answers
\* 400 and leaves the token as it is; no other route changes it.
C9_TokenLifecycle ==
    [][/\ session' # session =>
            \/ /\ resp'.route = "callback"
               /\ resp'.status = 302
               /\ "get_access_token" \in log'.calls
               /\ session' = log'.issued
               /\ session' # NoToken
            \/ /\ log'.ensured
               /\ log'.before = session
               /\ log'.refreshes = 1
               /\ log'.refresh_ok
               /\ session' = log'.issued
               /\ session' # NoToken
            \/ /\ log'.ensured
               /\ log'.before = session
               /\ log'.refreshes = 1
               /\ ~log'.refresh_ok
               /\ session.expires_at - clock < ExpiryMargin
               /\ session' = NoToken
       /\ (resp = Resp0 /\ resp'.route = "callback" /\ resp'.status = 400)
              => session' = session]_vars

\* C9 witness: a failed refresh has just taken the token out of the
\* session.
C9_Witness ==
    /\ log.ensured
    /\ log.before # NoToken
    /\ log.refreshes = 1
    /\ ~log.refresh_ok
    /\ session = NoToken

\* The stored override of the i-th track of the request, if its tempo is set.
Override(i) ==
    {r \in table : r.track_id = log.flow.track_ids[i] /\ r.tempo # NULL}

\* C10: each of the two tracks resolves to (tempo, energy) this way: with a
\* non-null override tempo in the store, the override tempo is used with
\* energy 0.5 and the audio-features endpoint is not called for the track;
\* otherwise tempo and energy both come from the audio-features endpoint;
\* when a track gets no tempo from either the request fails with the
\* features error (400) and calls no recommendation, search or playlist
\* endpoint.
C10_FeatureResolution ==
    (resp.route = "transition_between" /\ Len(log.flow.track_ids) = 2
        /\ log.flow.body = "object" /\ log.access # 0) =>
        LET fs == log.flow.features
        IN  /\ \A i \in 1..Len(fs) :
                  IF Override(i) # {}
                  THEN /\ \E r \in Override(i) : fs[i].tempo = r.tempo
                       /\ fs[i].energy = DefaultEnergy
                       /\ ~fs[i].remote
                  ELSE /\ fs[i].remote
                       /\ fs[i].ok => /\ fs[i].tempo = RemoteTempo
                                      /\ fs[i].energy = RemoteEnergy
            /\ (\E i \in 1..Len(fs) : ~fs[i].ok) =>
                  /\ resp.status = 400
                  /\ resp.error = "features_error"
                  /\ log.calls \subseteq {"audio_features"}
            /\ (\A i \in 1..Len(fs) : fs[i].ok) => Len(fs) = 2

\* The request ran the genre branch of /transition_between.
GenreBranch ==
    /\ resp.route = "transition_between"
    /\ log.flow.genre # "none"

====
